---- MODULE Spec2Model ----
(***************************************************************************)
(* The CIPP self-host authentication gateway (src/auth-proxy/server.js):   *)
(* an express application that terminates the OpenID-Connect login flow,   *)
(* keeps a server-side session per browser, answers the SWA-compatible     *)
(* /.auth endpoints and forwards /api to the backend with identity headers *)
(* derived from the session.                                               *)
(*                                                                         *)
(* Strings are TLA+ strings; a character is a string of length 1.  An      *)
(* optional JavaScript value is None (undefined) or Some(v).               *)
(***************************************************************************)
EXTENDS Naturals, Sequences, FiniteSets, Bags, TLC

VARIABLES
    env,        \* process.env as read at lines 13-21 (fixed for a process)
    phase,      \* "starting" until start() has called app.listen, then "listening"
    oidcClient, \* the module-level handle of line 23: FALSE is null
    store,      \* the session store's entry for the browser's cookie
    issued,     \* how many random values generators.nonce/state have produced
    inflight,   \* the callback requests awaiting the token endpoint (line 133)
    last,       \* the exchange whose response is being written: its request, the
                \* session it read and its response
    pin,        \* inputs of the pure functions under SpecPure
    pout,       \* their results
    table,      \* the DevSecrets table of the secret store (src/setup.sh)
    task        \* the seeding task: where it stands, its probes, its exit status

vars == <<env, phase, oidcClient, store, issued, inflight, last, pin, pout, table, task>>

None == <<>>
Some(v) == <<v>>
IsSome(o) == o # None
Get(o) == o[1]

\* ------------------------------------------------------------------------
\* Strings
\* ------------------------------------------------------------------------
CharAt(s, i) == SubSeq(s, i, i)

UpperCase == "ABCDEFGHIJKLMNOPQRSTUVWXYZ"
LowerCase == "abcdefghijklmnopqrstuvwxyz"

\* String.prototype.toLowerCase on one ASCII character
LowerOf ==
    [c \in {CharAt(UpperCase, i) : i \in 1..Len(UpperCase)} |->
        CharAt(LowerCase, CHOOSE i \in 1..Len(UpperCase) : CharAt(UpperCase, i) = c)]
LowerChar(c) == IF c \in DOMAIN LowerOf THEN LowerOf[c] ELSE c

\* The character-by-character conversions split the string in two halves,
\* which keeps the evaluation shallow.
RECURSIVE toLowerCase(_)
toLowerCase(s) ==
    IF Len(s) = 0 THEN ""
    ELSE IF Len(s) = 1 THEN LowerChar(s)
    ELSE toLowerCase(SubSeq(s, 1, Len(s) \div 2))
         \o toLowerCase(SubSeq(s, Len(s) \div 2 + 1, Len(s)))

\* String.prototype.startsWith
startsWith(s, p) == Len(s) >= Len(p) /\ SubSeq(s, 1, Len(p)) = p

\* the first index at which p occurs in s, 0 when it does not occur
indexOf(s, p) ==
    IF \E i \in 1..(Len(s) + 1) : i + Len(p) - 1 <= Len(s) /\ SubSeq(s, i, i + Len(p) - 1) = p
    THEN CHOOSE i \in 1..(Len(s) + 1) :
            /\ i + Len(p) - 1 <= Len(s)
            /\ SubSeq(s, i, i + Len(p) - 1) = p
            /\ \A j \in 1..(i - 1) : SubSeq(s, j, j + Len(p) - 1) # p
    ELSE 0

\* String.prototype.replace(p, r) with a string pattern: the first occurrence only
replace(s, p, r) ==
    LET i == indexOf(s, p) IN
    IF i = 0 THEN s
    ELSE SubSeq(s, 1, i - 1) \o r \o SubSeq(s, i + Len(p), Len(s))

\* the printable ASCII characters: codes 32..95, and codes 97..126
PrintableLow ==
    " !\"#$%&'(" \o ")*+,-./0123456789:;<=>?@ABCDEFGHIJKLMNOPQRSTUVWXYZ[\\]^_"
PrintableHigh == "abcdefghijklmnopqrstuvwxyz{|}~"
FirstLow == 32
FirstHigh == 97

CodeOf ==
    [c \in {CharAt(PrintableLow, i) : i \in 1..Len(PrintableLow)}
            \cup {CharAt(PrintableHigh, i) : i \in 1..Len(PrintableHigh)} |->
        IF \E i \in 1..Len(PrintableLow) : CharAt(PrintableLow, i) = c
        THEN (FirstLow - 1) + CHOOSE i \in 1..Len(PrintableLow) : CharAt(PrintableLow, i) = c
        ELSE (FirstHigh - 1) + CHOOSE i \in 1..Len(PrintableHigh) : CharAt(PrintableHigh, i) = c]
CharCode(c) == CodeOf[c]

FromCharCode(n) ==
    IF n < FirstHigh THEN CharAt(PrintableLow, n - (FirstLow - 1))
    ELSE CharAt(PrintableHigh, n - (FirstHigh - 1))

\* ------------------------------------------------------------------------
\* JSON.stringify and Buffer.from(..., "utf8").toString("base64")
\* ------------------------------------------------------------------------
\* JSON.stringify's escaping of one character of a string
JsonEscapeChar(c) ==
    IF c = "\"" THEN "\\\""
    ELSE IF c = "\\" THEN "\\\\"
    ELSE c

RECURSIVE JsonEscape(_)
JsonEscape(s) ==
    IF Len(s) = 0 THEN ""
    ELSE IF Len(s) = 1 THEN JsonEscapeChar(s)
    ELSE JsonEscape(SubSeq(s, 1, Len(s) \div 2))
         \o JsonEscape(SubSeq(s, Len(s) \div 2 + 1, Len(s)))

\* JSON.stringify of a string
JsonString(s) == "\"" \o JsonEscape(s) \o "\""

\* JSON.stringify of an array of strings
RECURSIVE JsonStringItems(_)
JsonStringItems(a) ==
    IF Len(a) = 0 THEN ""
    ELSE IF Len(a) = 1 THEN JsonString(a[1])
    ELSE JsonString(a[1]) \o "," \o JsonStringItems(Tail(a))

JsonStringArray(a) == "[" \o JsonStringItems(a) \o "]"

\* JSON.stringify of what buildClientPrincipal returns (null, or the object
\* with its four keys in insertion order)
stringifyPrincipal(p) ==
    IF p = None THEN "null"
    ELSE "{" \o "\"identityProvider\":" \o JsonString(Get(p).identityProvider)
          \o "," \o "\"userId\":" \o JsonString(Get(p).userId)
          \o "," \o "\"userDetails\":" \o JsonString(Get(p).userDetails)
          \o "," \o "\"userRoles\":" \o JsonStringArray(Get(p).userRoles)
          \o "}"

\* the UTF-8 bytes of an ASCII string
Utf8Bytes(s) == [i \in 1..Len(s) |-> CharCode(CharAt(s, i))]

Base64Alphabet == "ABCDEFGHIJKLMNOPQRSTUVWXYZabcdefghijklmnopqrstuvwxyz0123456789+/"
Base64Char(n) == CharAt(Base64Alphabet, n + 1)

\* three bytes give four characters; a last group of one or two bytes is
\* padded with "="
RECURSIVE Base64Encode(_)
Base64Encode(b) ==
    IF Len(b) = 0 THEN ""
    ELSE IF Len(b) = 1 THEN
        Base64Char(b[1] \div 4) \o Base64Char((b[1] % 4) * 16) \o "=="
    ELSE IF Len(b) = 2 THEN
        Base64Char(b[1] \div 4)
        \o Base64Char((b[1] % 4) * 16 + b[2] \div 16)
        \o Base64Char((b[2] % 16) * 4) \o "="
    ELSE IF Len(b) = 3 THEN
        Base64Char(b[1] \div 4)
        \o Base64Char((b[1] % 4) * 16 + b[2] \div 16)
        \o Base64Char((b[2] % 16) * 4 + b[3] \div 64)
        \o Base64Char(b[3] % 64)
    ELSE LET half == 3 * ((Len(b) \div 3 + 1) \div 2)
         IN Base64Encode(SubSeq(b, 1, half)) \o Base64Encode(SubSeq(b, half + 1, Len(b)))

\* ------------------------------------------------------------------------
\* Configuration (lines 13-21)
\* ------------------------------------------------------------------------
\* JavaScript's  a || b  on optional strings: the empty string is falsy
OrElse(o, d) == IF IsSome(o) /\ Get(o) # "" THEN Get(o) ELSE d

TENANT_ID == env.AZURE_AD_TENANT_ID
CLIENT_SECRET == env.AZURE_AD_CLIENT_SECRET
SESSION_SECRET == OrElse(env.SESSION_SECRET, "change-me-in-production")
CALLBACK_URL == OrElse(env.CALLBACK_URL, "https://localhost/auth/callback")
DEFAULT_ADMIN_UPN == toLowerCase(OrElse(env.DEFAULT_ADMIN_UPN, ""))
BASE_URL == replace(CALLBACK_URL, "/auth/callback", "")

\* ------------------------------------------------------------------------
\* Principal builder (lines 74-90)
\* ------------------------------------------------------------------------
\* the admin role put in front of the two base roles
buildClientPrincipalAdminFirst(user) ==
    IF user = None THEN None
    ELSE LET roles == <<"authenticated", "anonymous">>
             admin == DEFAULT_ADMIN_UPN # ""
                      /\ toLowerCase(Get(user).email) = DEFAULT_ADMIN_UPN
         IN Some([identityProvider |-> "aad",
                  userId |-> Get(user).oid,
                  userDetails |-> Get(user).email,
                  userRoles |-> IF admin THEN <<"admin">> \o roles ELSE roles])

\* the comparison of line 80 without lower-casing the user's email
buildClientPrincipalCaseSensitive(user) ==
    IF user = None THEN None
    ELSE LET roles == <<"authenticated", "anonymous">>
             admin == DEFAULT_ADMIN_UPN # "" /\ Get(user).email = DEFAULT_ADMIN_UPN
         IN Some([identityProvider |-> "aad",
                  userId |-> Get(user).oid,
                  userDetails |-> Get(user).email,
                  userRoles |-> IF admin THEN Append(roles, "admin") ELSE roles])

buildClientPrincipal(user) ==
    IF user = None THEN None
    ELSE LET roles == <<"authenticated", "anonymous">>
             admin == DEFAULT_ADMIN_UPN # ""
                      /\ toLowerCase(Get(user).email) = DEFAULT_ADMIN_UPN
         IN Some([identityProvider |-> "aad",
                  userId |-> Get(user).oid,
                  userDetails |-> Get(user).email,
                  userRoles |-> IF admin THEN Append(roles, "admin") ELSE roles])

\* ------------------------------------------------------------------------
\* encodeURIComponent (line 173)
\* ------------------------------------------------------------------------
UriUnreserved ==
    "ABCDEFGHIJKLMNOPQRSTUVWXYZabcdefghijklmnopqrstuvwxyz0123456789-_.!~*'(" \o ")"
HexDigits == "0123456789ABCDEF"
HexDigit(n) == CharAt(HexDigits, n + 1)

UnreservedChars == {CharAt(UriUnreserved, i) : i \in 1..Len(UriUnreserved)}
IsUnreserved(c) == c \in UnreservedChars

PercentEncode(c) ==
    IF IsUnreserved(c) THEN c
    ELSE "%" \o HexDigit(CharCode(c) \div 16) \o HexDigit(CharCode(c) % 16)

RECURSIVE encodeURIComponent(_)
encodeURIComponent(s) ==
    IF Len(s) = 0 THEN ""
    ELSE IF Len(s) = 1 THEN PercentEncode(s)
    ELSE encodeURIComponent(SubSeq(s, 1, Len(s) \div 2))
         \o encodeURIComponent(SubSeq(s, Len(s) \div 2 + 1, Len(s)))

\* ------------------------------------------------------------------------
\* The values the environment supplies
\* ------------------------------------------------------------------------
MaxIssued == 4      \* random values generators.nonce/state may hand out in a run
MaxInFlight == 1    \* callback requests that may await the token endpoint at once
MaxLen == 2         \* length of the strings the pure functions are applied to

Environments ==
    { [AZURE_AD_TENANT_ID |-> "contoso",
       AZURE_AD_CLIENT_SECRET |-> Some("s3cret"),
       SESSION_SECRET |-> Some("signing-key"),
       CALLBACK_URL |-> Some("https://cipp.example.com/auth/callback"),
       DEFAULT_ADMIN_UPN |-> Some("Admin@Example.com")],
      [AZURE_AD_TENANT_ID |-> "contoso",
       AZURE_AD_CLIENT_SECRET |-> Some("s3cret"),
       SESSION_SECRET |-> Some("signing-key"),
       CALLBACK_URL |-> None,
       DEFAULT_ADMIN_UPN |-> None],
      [AZURE_AD_TENANT_ID |-> "contoso",
       AZURE_AD_CLIENT_SECRET |-> None,
       SESSION_SECRET |-> None,
       CALLBACK_URL |-> Some("https://cipp.example.com/auth/callback"),
       DEFAULT_ADMIN_UPN |-> Some("Admin@Example.com")] }

\* the claims of the ID tokens the identity provider may issue
TokenClaims ==
    { [oid |-> Some("oid-1"), sub |-> "sub-1", name |-> Some("Ada"),
       preferred_username |-> Some("ADMIN@example.com"), email |-> None, upn |-> None],
      [oid |-> None, sub |-> "sub-2", name |-> None,
       preferred_username |-> None, email |-> Some("bob\"@example.com"), upn |-> None] }

\* values of the post_login_redirect_uri query parameter
LoginRedirects == {None, Some("/tenants"), Some("https://evil.example/")}

\* ------------------------------------------------------------------------
\* Session (express-session, lines 34-46)
\* ------------------------------------------------------------------------
\* the session a request gets when the store holds none for its cookie
EmptySession ==
    [user |-> None, oidcNonce |-> None, oidcState |-> None, postLoginRedirect |-> None]

\* The store keeps whole sessions under session ids, and a response that saves
\* a session also sets the browser's cookie to its id.  `store` is the entry
\* the browser's cookie names; a request is `bound` when its session id is
\* that one, and not bound when it works on an id of its own; it is
\* `loggedOut` once a logout destroyed its session id while it was waiting,
\* and `spent` once another callback carrying the same state has succeeded.

\* the session middleware on arrival: req.session is a copy of the stored
\* session, or a new empty session under a new id
LoadSession ==
    [session |-> IF store = None THEN EmptySession ELSE Get(store),
     bound |-> store # None,
     loggedOut |-> FALSE,
     spent |-> FALSE]

\* The callbacks awaiting the token endpoint form a bag: two requests of one
\* browser may have read the same session and carry the same parameters.
Awaiting == BagToSet(inflight)
Answered(req) == inflight (-) SetToBag({req})

\* the waiting requests once the cookie names another session id than theirs
Unbound(waiting) ==
    LET images == {[r EXCEPT !.bound = FALSE] : r \in BagToSet(waiting)}
    IN [x \in images |->
           CopiesIn(x, waiting) + CopiesIn([x EXCEPT !.bound = TRUE], waiting)]

\* the waiting requests once the session the cookie names has been destroyed:
\* those that work on it are marked
Destroyed(waiting) ==
    LET images == {[r EXCEPT !.loggedOut = r.bound \/ r.loggedOut] : r \in BagToSet(waiting)}
    IN [x \in images |->
           (IF x.loggedOut \/ ~x.bound THEN CopiesIn(x, waiting) ELSE 0)
           + (IF x.loggedOut /\ x.bound
              THEN CopiesIn([x EXCEPT !.loggedOut = FALSE], waiting) ELSE 0)]

\* the waiting requests once a callback carrying `state` has succeeded:
\* those that carry the same state are marked
Spent(waiting, state) ==
    LET images == {[r EXCEPT !.spent = r.spent \/ r.query.state = state] :
                      r \in BagToSet(waiting)}
    IN [x \in images |->
           (IF x.spent \/ x.query.state # state THEN CopiesIn(x, waiting) ELSE 0)
           + (IF x.spent /\ x.query.state = state
              THEN CopiesIn([x EXCEPT !.spent = FALSE], waiting) ELSE 0)]

\* the end of a response: a session that differs from what was loaded is
\* written whole (resave: false, saveUninitialized: false); req is the request
\* as it arrived, after is req.session when the response ends
\* a save that never replaces a session the store already holds
StoredAfterFirst(req, after) ==
    IF after = req.session \/ store # None THEN store ELSE Some(after)

StoredAfter(req, after) == IF after = req.session THEN store ELSE Some(after)
WaitingAfter(req, after) ==
    IF after = req.session \/ req.bound THEN Answered(req) ELSE Unbound(Answered(req))

SaveSession(req, after) ==
    /\ store' = StoredAfter(req, after)
    /\ inflight' = WaitingAfter(req, after)

\* a destroy that leaves the stored session in place
DestroySessionKept(req) ==
    /\ store' = store
    /\ inflight' = Answered(req)

\* req.session.destroy: the store forgets the request's session id, and the
\* end of the response saves nothing
DestroySession(req) ==
    /\ store' = IF req.bound THEN None ELSE store
    /\ inflight' = IF req.bound THEN Destroyed(Answered(req)) ELSE Answered(req)

\* ------------------------------------------------------------------------
\* Startup (lines 58-69, 257-272)
\* ------------------------------------------------------------------------
NoExchange == [route |-> "none"]

\* the listener is up and the event loop is free to run the next handler
Listening == phase = "listening" /\ last = NoExchange

Init ==
    /\ env \in Environments
    /\ phase = "starting"
    /\ oidcClient = FALSE
    /\ store = None
    /\ issued = 0
    /\ inflight = EmptyBag
    /\ last = NoExchange
    /\ pin = None
    /\ pout = None
    /\ table = None
    /\ task = None

\* start(): initOidc either assigns the client or throws; the listener is
\* started in both cases
\* a start that gives up when discovery fails
startOrExit ==
    /\ phase = "starting"
    /\ \E discovered \in BOOLEAN :
          /\ oidcClient' = discovered
          /\ phase' = IF discovered THEN "listening" ELSE "exited"
    /\ UNCHANGED <<env, store, issued, inflight, last, pin, pout, table, task>>

start ==
    /\ phase = "starting"
    /\ \E discovered \in BOOLEAN : oidcClient' = discovered
    /\ phase' = "listening"
    /\ UNCHANGED <<env, store, issued, inflight, last, pin, pout, table, task>>

\* the response of the exchange in `last` has been written to its socket
responseSent ==
    /\ last # NoExchange
    /\ last' = NoExchange
    /\ UNCHANGED <<env, phase, oidcClient, store, issued, inflight, pin, pout, table, task>>

\* the cookie's maxAge passes: the store drops the session
SessionExpires ==
    /\ Listening
    /\ store # None
    /\ store' = None
    /\ UNCHANGED <<env, phase, oidcClient, issued, inflight, last, pin, pout, table, task>>

\* ------------------------------------------------------------------------
\* GET /health (lines 51-53)
\* ------------------------------------------------------------------------
\* a health check that reports the flow ready whatever its state
HealthBodyReady == "{\"status\":\"ok\",\"oidc\":true}"

HealthBody ==
    "{\"status\":\"ok\",\"oidc\":" \o (IF oidcClient THEN "true" ELSE "false") \o "}"

health(req) ==
    /\ Listening
    /\ last' = [route |-> "/health", session |-> req.session,
                status |-> 200, body |-> HealthBody]
    /\ SaveSession(req, req.session)
    /\ UNCHANGED <<env, phase, oidcClient, issued, pin, pout, table, task>>

\* ------------------------------------------------------------------------
\* GET /.auth/me (lines 97-100)
\* ------------------------------------------------------------------------
PrincipalBody(principal) == "{\"clientPrincipal\":" \o stringifyPrincipal(principal) \o "}"

authMe(req) ==
    /\ Listening
    /\ last' = [route |-> "/.auth/me", session |-> req.session,
                status |-> 200,
                body |-> PrincipalBody(buildClientPrincipal(req.session.user))]
    /\ SaveSession(req, req.session)
    /\ UNCHANGED <<env, phase, oidcClient, issued, pin, pout, table, task>>

\* ------------------------------------------------------------------------
\* GET /.auth/login/aad (lines 103-123)
\* ------------------------------------------------------------------------
NotReadyBody == "Auth service not ready"

\* oidcClient.authorizationUrl: the provider's authorization endpoint with
\* the scope, the nonce and the state
authorizationUrl(nonce, state) ==
    "https://login.microsoftonline.com/" \o TENANT_ID \o "/oauth2/v2.0/authorize"
    \o "?scope=openid%20profile%20email&response_type=code"
    \o "&redirect_uri=" \o encodeURIComponent(CALLBACK_URL)
    \o "&nonce=" \o ToString(nonce) \o "&state=" \o ToString(state)

\* a login that keeps the pending login the session already holds
loginSessionKept(sess, nonce, state, postLoginRedirect) ==
    IF IsSome(sess.oidcState) THEN sess
    ELSE [sess EXCEPT !.oidcNonce = Some(nonce),
                      !.oidcState = Some(state),
                      !.postLoginRedirect = Some(postLoginRedirect)]

\* a login that starts from a fresh session
loginSessionFresh(sess, nonce, state, postLoginRedirect) ==
    [EmptySession EXCEPT !.oidcNonce = Some(nonce),
                         !.oidcState = Some(state),
                         !.postLoginRedirect = Some(postLoginRedirect)]

\* the session as lines 112-114 leave it
loginSession(sess, nonce, state, postLoginRedirect) ==
    [sess EXCEPT !.oidcNonce = Some(nonce),
                 !.oidcState = Some(state),
                 !.postLoginRedirect = Some(postLoginRedirect)]

loginAad(req, query) ==
    /\ Listening
    /\ IF ~oidcClient
       THEN /\ last' = [route |-> "/.auth/login/aad", session |-> req.session,
                        query |-> query, status |-> 503, body |-> NotReadyBody]
            /\ SaveSession(req, req.session)
            /\ UNCHANGED <<env, phase, oidcClient, issued, pin, pout, table, task>>
       ELSE LET postLoginRedirect == OrElse(query, "/")
                nonce == issued + 1
                state == issued + 2
            IN /\ state <= MaxIssued
               /\ issued' = state
               /\ last' = [route |-> "/.auth/login/aad", session |-> req.session,
                           query |-> query, status |-> 302,
                           location |-> authorizationUrl(nonce, state),
                           nonce |-> nonce, state |-> state]
               /\ SaveSession(req, loginSession(req.session, nonce, state, postLoginRedirect))
               /\ UNCHANGED <<env, phase, oidcClient, pin, pout, table, task>>

\* ------------------------------------------------------------------------
\* GET /auth/callback (lines 126-158)
\* ------------------------------------------------------------------------
AuthFailedBody == "Authentication failed. Please try again."

\* the state parameter of a callback request: absent, a value this gateway
\* never issued (0), or any value it may have issued
CallbackQueries ==
    [state : {None} \cup {Some(n) : n \in 0..MaxIssued}, code : BOOLEAN]

\* the outcome of the token exchange: it fails, or it returns an ID token
\* carrying the nonce of the authorization request behind the code
TokenSets ==
    [nonce : {None} \cup {Some(n) : n \in 1..MaxIssued}, claims : TokenClaims]
ExchangeOutcomes == {None} \cup {Some(t) : t \in TokenSets}

\* the client of lines 62-67 authenticates to the token endpoint with
\* CLIENT_SECRET: without one no token request succeeds
TokenEndpointAnswers == IF CLIENT_SECRET = None THEN {None} ELSE ExchangeOutcomes

\* the state check left out
stateAcceptedUnchecked(params, checks) == TRUE

\* oidcClient.callback before the token request: the state checks
stateAccepted(params, checks) ==
    /\ ~(IsSome(params.state) /\ checks.state = None)
    /\ ~(params.state = None /\ IsSome(checks.state))
    /\ checks.state = params.state

\* oidcClient.callback after the token request: the ID token's nonce check
nonceAccepted(tokenSet, checks) ==
    ~((IsSome(tokenSet.nonce) \/ IsSome(checks.nonce)) /\ tokenSet.nonce # checks.nonce)

\* the mapping with the email claim consulted before preferred_username
userFromClaimsEmailFirst(claims) ==
    [oid |-> OrElse(claims.oid, claims.sub),
     email |-> OrElse(claims.email,
                      OrElse(claims.preferred_username, OrElse(claims.upn, ""))),
     name |-> OrElse(claims.name, "")]

\* lines 140-144
userFromClaims(claims) ==
    [oid |-> OrElse(claims.oid, claims.sub),
     email |-> OrElse(claims.preferred_username,
                      OrElse(claims.email, OrElse(claims.upn, ""))),
     name |-> OrElse(claims.name, "")]

\* lines 140-151: the user is replaced and the pending login deleted
authenticatedSession(sess, claims) ==
    [sess EXCEPT !.user = Some(userFromClaims(claims)),
                 !.oidcNonce = None,
                 !.oidcState = None,
                 !.postLoginRedirect = None]

\* the redirect of line 150 without the stored path
callbackRedirectRoot(sess) == "/"

\* line 150
callbackRedirect(sess) == OrElse(sess.postLoginRedirect, "/")

\* a catch block that tells the browser which step failed
callbackFailsDetailed(req, query, token) ==
    /\ last' = [route |-> "/auth/callback", session |-> req.session,
                query |-> query, token |-> token,
                loggedOut |-> req.loggedOut, spent |-> req.spent,
                status |-> 500,
                body |-> IF IsSome(token) THEN "nonce mismatch" ELSE AuthFailedBody]
    /\ SaveSession(req, req.session)

\* the catch block: the response alone, req.session is left as it was
callbackFails(req, query, token) ==
    /\ last' = [route |-> "/auth/callback", session |-> req.session,
                query |-> query, token |-> token,
                loggedOut |-> req.loggedOut, spent |-> req.spent,
                status |-> 500, body |-> AuthFailedBody]
    /\ SaveSession(req, req.session)

\* the request passes the checks made before the token request and waits for
\* the token endpoint
awaitsExchange(req, query) ==
    /\ oidcClient
    /\ query.code
    /\ stateAccepted(query, [nonce |-> req.session.oidcNonce, state |-> req.session.oidcState])

\* the handler up to the await of line 133
callback(req, query) ==
    /\ Listening
    /\ UNCHANGED <<env, phase, oidcClient, issued, pin, pout, table, task>>
    /\ IF ~oidcClient
       THEN /\ last' = [route |-> "/auth/callback", session |-> req.session,
                        query |-> query, token |-> None,
                        loggedOut |-> req.loggedOut, spent |-> req.spent,
                        status |-> 503, body |-> NotReadyBody]
            /\ SaveSession(req, req.session)
       ELSE IF awaitsExchange(req, query)
            THEN /\ inflight' = inflight (+) SetToBag({[session |-> req.session,
                                                        bound |-> req.bound,
                                                        loggedOut |-> FALSE,
                                                        spent |-> FALSE,
                                                        query |-> query]})
                 /\ UNCHANGED <<store, last>>
            ELSE callbackFails(req, query, None)

\* the handler from the token endpoint's answer on (lines 133-157)
callbackExchange(req, outcome) ==
    /\ Listening
    /\ UNCHANGED <<env, phase, oidcClient, issued, pin, pout, table, task>>
    /\ LET checks == [nonce |-> req.session.oidcNonce,
                      state |-> req.session.oidcState]
       IN IF outcome = None \/ ~nonceAccepted(Get(outcome), checks)
          THEN callbackFails(req, req.query, outcome)
          ELSE /\ last' = [route |-> "/auth/callback", session |-> req.session,
                           query |-> req.query, token |-> outcome,
                           loggedOut |-> req.loggedOut, spent |-> req.spent,
                           status |-> 302, location |-> callbackRedirect(req.session)]
               /\ LET after == authenticatedSession(req.session, Get(outcome).claims)
                  IN /\ store' = StoredAfter(req, after)
                     /\ inflight' = Spent(WaitingAfter(req, after), req.query.state)

\* ------------------------------------------------------------------------
\* GET /.auth/logout (lines 161-176)
\* ------------------------------------------------------------------------
\* values of the post_logout_redirect_uri and post_logout_redirect_url
\* query parameters
LogoutQueries ==
    { [post_logout_redirect_uri |-> None, post_logout_redirect_url |-> None],
      [post_logout_redirect_uri |-> None, post_logout_redirect_url |-> Some("/alt")],
      [post_logout_redirect_uri |-> Some("/bye"), post_logout_redirect_url |-> Some("/alt")],
      [post_logout_redirect_uri |-> Some("https://evil.example/"), post_logout_redirect_url |-> None],
      [post_logout_redirect_uri |-> Some("@evil.example/"), post_logout_redirect_url |-> None],
      [post_logout_redirect_uri |-> Some("http"), post_logout_redirect_url |-> None] }

\* lines 167-169
fullRedirect(postLogoutRedirect) ==
    IF startsWith(postLogoutRedirect, "http")
    THEN postLogoutRedirect
    ELSE BASE_URL \o postLogoutRedirect

\* lines 171-173
logoutUrl(postLogoutRedirect) ==
    "https://login.microsoftonline.com/" \o TENANT_ID \o "/oauth2/v2.0/logout"
    \o "?post_logout_redirect_uri=" \o encodeURIComponent(fullRedirect(postLogoutRedirect))

logout(req, query) ==
    LET postLogoutRedirect ==
            OrElse(query.post_logout_redirect_uri,
                   OrElse(query.post_logout_redirect_url, "/"))
    IN /\ Listening
       /\ last' = [route |-> "/.auth/logout", session |-> req.session,
                   query |-> query, status |-> 302,
                   location |-> logoutUrl(postLogoutRedirect)]
       /\ DestroySession(req)
       /\ UNCHANGED <<env, phase, oidcClient, issued, pin, pout, table, task>>

\* ------------------------------------------------------------------------
\* /api (lines 186-239)
\* ------------------------------------------------------------------------
IdentityHeaders ==
    {"x-ms-client-principal", "x-ms-client-principal-name", "x-ms-client-principal-idp"}
HeaderNames == IdentityHeaders \cup {"accept"}

\* a principal an attacker would like the backend to see
ForgedPrincipal ==
    Base64Encode(Utf8Bytes(stringifyPrincipal(
        Some([identityProvider |-> "aad", userId |-> "oid-9",
              userDetails |-> "mallory@evil.example",
              userRoles |-> <<"authenticated", "anonymous", "admin">>]))))

\* the identity headers a client may send: each absent or forged
ForgedHeaders ==
    [h \in HeaderNames |->
        IF h = "accept" THEN Some("*/*")
        ELSE IF h = "x-ms-client-principal" THEN Some(ForgedPrincipal)
        ELSE IF h = "x-ms-client-principal-name" THEN Some("mallory@evil.example")
        ELSE Some("github")]
ClientHeaders ==
    { [h \in HeaderNames |-> IF h \in sent THEN ForgedHeaders[h] ELSE None] :
        sent \in {S \cup {"accept"} : S \in SUBSET IdentityHeaders} }

ApiRequests ==
    [method : {"GET"}, path : {"/api/ListUsers"}, headers : ClientHeaders]
    \cup [method : {"GET", "POST"}, path : {"/api/me"}, headers : {ForgedHeaders}]
    \cup [method : {"POST"}, path : {"/API/ListUsers"}, headers : {ForgedHeaders}]

\* the middleware without its strip step
stripHeadersSkipped(headers) == headers

\* lines 202-204
stripHeaders(headers) == [h \in DOMAIN headers |-> IF h \in IdentityHeaders THEN None ELSE headers[h]]

\* lines 207-217
injectHeaders(headers, sess) ==
    IF IsSome(sess.user)
    THEN LET principal == buildClientPrincipal(sess.user)
             principalJson == stringifyPrincipal(principal)
             principalBase64 == Base64Encode(Utf8Bytes(principalJson))
         IN [headers EXCEPT !["x-ms-client-principal"] = Some(principalBase64),
                            !["x-ms-client-principal-name"] = Some(Get(sess.user).email),
                            !["x-ms-client-principal-idp"] = Some("aad")]
    ELSE headers

\* the derived headers set only where the client sent none
apiHeadersClientWins(headers, sess) ==
    [h \in DOMAIN headers |->
        IF IsSome(headers[h]) THEN headers[h] ELSE injectHeaders(headers, sess)[h]]

\* the header middleware of lines 200-220
apiHeaders(headers, sess) == injectHeaders(stripHeaders(headers), sess)

\* express matches routes and mount paths ignoring letter case, and hands the
\* middleware of a mount path the URL without it
MountPath == "/api"
\* a route registered behind the proxy is never reached
matchesRouteShadowed(path, route) == FALSE
matchesRoute(path, route) == toLowerCase(path) = route
mountedUrl(path) ==
    IF Len(path) = Len(MountPath) THEN "/" ELSE SubSeq(path, Len(MountPath) + 1, Len(path))

\* line 228
pathRewrite(p) == "/api" \o p

\* the error handler answering in plain text
BackendUnavailableText == "API backend unavailable"

BackendUnavailableBody == "{\"error\":\"API backend unavailable\"}"
BackendBody == "<backend response>"

\* GET /api/me without a session user is answered here (lines 186-193); every
\* other request passes the header middleware and the proxy
api(req, request, backendUp) ==
    /\ Listening
    /\ UNCHANGED <<env, phase, oidcClient, issued, pin, pout, table, task>>
    /\ SaveSession(req, req.session)
    /\ IF /\ request.method = "GET"
          /\ matchesRoute(request.path, "/api/me")
          /\ ~IsSome(req.session.user)
       THEN last' = [route |-> "/api", session |-> req.session, request |-> request,
                     status |-> 200, body |-> PrincipalBody(None), forwarded |-> None]
       ELSE LET forwarded == [method |-> request.method,
                              path |-> pathRewrite(mountedUrl(request.path)),
                              headers |-> apiHeaders(request.headers, req.session)]
            IN last' = [route |-> "/api", session |-> req.session, request |-> request,
                        status |-> IF backendUp THEN 200 ELSE 502,
                        body |-> IF backendUp THEN BackendBody ELSE BackendUnavailableBody,
                        forwarded |-> Some(forwarded), connected |-> backendUp]

\* ------------------------------------------------------------------------
\* Static frontend and SPA fallback (lines 244-252)
\* ------------------------------------------------------------------------
\* the files of FRONTEND_DIR, as URL paths
StaticFiles == {"/index.html", "/app.js"}
EntryDocument == "/index.html"

\* the GET routes registered before the static middleware
GetRoutes == {"/health", "/.auth/me", "/.auth/login/aad", "/auth/callback",
              "/.auth/logout", "/api/me"}

\* app.use("/api", ...) takes every request whose path is the mount path or
\* lies below it
underMount(path) ==
    \/ toLowerCase(path) = MountPath
    \/ startsWith(toLowerCase(path), MountPath \o "/")

\* no route or middleware registered before line 246 answers the request
reachesFrontend(request) ==
    /\ ~underMount(request.path)
    /\ ~(request.method = "GET" /\ \E route \in GetRoutes : matchesRoute(request.path, route))

FrontendRequests ==
    { [method |-> "GET", path |-> "/"],
      [method |-> "GET", path |-> "/app.js"],
      [method |-> "GET", path |-> "/tenants"],
      [method |-> "GET", path |-> "/.auth/login/github"],
      [method |-> "GET", path |-> "/auth/signout"],
      [method |-> "POST", path |-> "/.auth/logout"] }

\* express.static: the file a GET names, the index file for a directory
staticFile(request) ==
    IF request.method # "GET" THEN None
    ELSE IF request.path = "/" THEN Some(EntryDocument)
    ELSE IF request.path \in StaticFiles THEN Some(request.path)
    ELSE None

\* express.static, then app.get("*"), then express's 404
frontend(req, request) ==
    /\ Listening
    /\ reachesFrontend(request)
    /\ UNCHANGED <<env, phase, oidcClient, issued, pin, pout, table, task>>
    /\ SaveSession(req, req.session)
    /\ last' = IF IsSome(staticFile(request))
               THEN [route |-> "frontend", session |-> req.session, request |-> request,
                     status |-> 200, file |-> staticFile(request), fallback |-> FALSE]
               ELSE IF request.method = "GET"
               THEN [route |-> "frontend", session |-> req.session, request |-> request,
                     status |-> 200, file |-> Some(EntryDocument), fallback |-> TRUE]
               ELSE [route |-> "frontend", session |-> req.session, request |-> request,
                     status |-> 404, file |-> None, fallback |-> FALSE]

\* ------------------------------------------------------------------------
\* The gateway
\* ------------------------------------------------------------------------
\* A handler without an await runs from the session middleware to the end of
\* its response in one step; the callback handler takes two, split at the
\* await of line 133.
Next ==
    \/ start
    \/ responseSent
    \/ SessionExpires
    \/ health(LoadSession)
    \/ authMe(LoadSession)
    \/ \E query \in LoginRedirects : loginAad(LoadSession, query)
    \/ \E query \in CallbackQueries :
          /\ awaitsExchange(LoadSession, query) => BagCardinality(inflight) < MaxInFlight
          /\ callback(LoadSession, query)
    \/ \E req \in Awaiting, outcome \in TokenEndpointAnswers : callbackExchange(req, outcome)
    \/ \E query \in LogoutQueries : logout(LoadSession, query)
    \/ \E request \in ApiRequests, backendUp \in BOOLEAN : api(LoadSession, request, backendUp)
    \/ \E request \in FrontendRequests : frontend(LoadSession, request)

Spec == Init /\ [][Next]_vars

\* ------------------------------------------------------------------------
\* One browser racing its own logins and callbacks: one configuration, no
\* post-login path, and up to MaxRacing callbacks awaiting the token endpoint
\* ------------------------------------------------------------------------
MaxRacing == 2

RaceInit ==
    /\ env = [AZURE_AD_TENANT_ID |-> "contoso",
              AZURE_AD_CLIENT_SECRET |-> Some("s3cret"),
              SESSION_SECRET |-> Some("signing-key"),
              CALLBACK_URL |-> Some("https://cipp.example.com/auth/callback"),
              DEFAULT_ADMIN_UPN |-> None]
    /\ phase = "starting"
    /\ oidcClient = FALSE
    /\ store = None
    /\ issued = 0
    /\ inflight = EmptyBag
    /\ last = NoExchange
    /\ pin = None
    /\ pout = None
    /\ table = None
    /\ task = None

RaceNext ==
    \/ start
    \/ responseSent
    \/ loginAad(LoadSession, None)
    \/ \E query \in CallbackQueries :
          /\ awaitsExchange(LoadSession, query) => BagCardinality(inflight) < MaxRacing
          /\ callback(LoadSession, query)
    \/ \E req \in Awaiting, outcome \in TokenEndpointAnswers : callbackExchange(req, outcome)

SpecRace == RaceInit /\ [][RaceNext]_vars

\* ------------------------------------------------------------------------
\* The principal builder alone, on every address and every configuration
\* ------------------------------------------------------------------------
Letters == {"a", "A", "b", "B"}

RECURSIVE StringsOfLen(_)
StringsOfLen(n) ==
    IF n = 0 THEN {""} ELSE {s \o c : s \in StringsOfLen(n - 1), c \in Letters}
ShortStrings == UNION {StringsOfLen(n) : n \in 0..MaxLen}

PureInit ==
    /\ env \in [AZURE_AD_TENANT_ID : {"contoso"},
                AZURE_AD_CLIENT_SECRET : {Some("s3cret")},
                SESSION_SECRET : {Some("signing-key")},
                CALLBACK_URL : {None},
                DEFAULT_ADMIN_UPN : {None} \cup {Some(a) : a \in ShortStrings}]
    /\ pin \in {Some([oid |-> "oid-1", email |-> e, name |-> ""]) : e \in ShortStrings}
    /\ pout = None
    /\ phase = "pure"
    /\ oidcClient = FALSE
    /\ store = None
    /\ issued = 0
    /\ inflight = EmptyBag
    /\ last = NoExchange
    /\ table = None
    /\ task = None

principalBuilt ==
    /\ phase = "pure"
    /\ pout = None
    /\ pout' = buildClientPrincipal(pin)
    /\ UNCHANGED <<env, phase, oidcClient, store, issued, inflight, last, pin, table, task>>

SpecPure == PureInit /\ [][principalBuilt]_vars

\* ------------------------------------------------------------------------
\* The claim mapping of a successful callback alone (lines 138-151), on every
\* combination of absent, empty and present claims and on a session with and
\* without a user
\* ------------------------------------------------------------------------
ClaimValues(v) == {None, Some(""), Some(v)}

AnyClaims ==
    [oid : ClaimValues("oid-1"), sub : {"sub-1"}, name : ClaimValues("Ada"),
     preferred_username : ClaimValues("pu@example.com"),
     email : ClaimValues("mail@example.com"),
     upn : ClaimValues("upn@example.com")]

SessionsBefore ==
    { [EmptySession EXCEPT !.oidcNonce = Some(1), !.oidcState = Some(2),
                           !.postLoginRedirect = Some("/")],
      [EmptySession EXCEPT !.user = Some([oid |-> "oid-0", email |-> "old@example.com",
                                          name |-> "Old"])] }

ClaimsInit ==
    /\ pin \in [session : SessionsBefore, claims : AnyClaims]
    /\ pout = None
    /\ phase = "claims"
    /\ env \in Environments
    /\ oidcClient = TRUE
    /\ store = None
    /\ issued = 0
    /\ inflight = EmptyBag
    /\ last = NoExchange
    /\ table = None
    /\ task = None

claimsMapped ==
    /\ phase = "claims"
    /\ pout = None
    /\ pout' = Some(authenticatedSession(pin.session, pin.claims))
    /\ UNCHANGED <<env, phase, oidcClient, store, issued, inflight, last, pin, table, task>>

SpecClaims == ClaimsInit /\ [][claimsMapped]_vars

\* ------------------------------------------------------------------------
\* The secret-seeding task (src/setup.sh, lines 540-652)
\* ------------------------------------------------------------------------
\* `table` is the DevSecrets table of the store: whether it exists and the
\* entity ("Secret", "Secret") it holds.  `task` is the process: pc names the
\* store request it awaits, i is the loop counter of waitForAzurite, existing
\* is what getEntity returned, exit the status the process ended with; probes
\* counts the listTables requests of a run, ready tells that waitForAzurite
\* has returned, checked that getEntity has answered, threw that an error
\* reached main().catch, and run numbers the runs of the task.
maxRetries == 30
MaxRuns == 2        \* how many times the task is run against one store

SAM_APPLICATION_ID == env.SAM_APPLICATION_ID
SAM_APPLICATION_SECRET == env.SAM_APPLICATION_SECRET
SAM_TENANT_ID == env.SAM_TENANT_ID
SAM_REFRESH_TOKEN == env.SAM_REFRESH_TOKEN

\* JavaScript's  !v  on an optional string
Falsy(v) == v = None \/ v = Some("")

\* the environments of the task: each credential present or missing, and one
\* with an empty application id
SeedEnvironments ==
    [SAM_APPLICATION_ID : {None, Some("app-new")},
     SAM_APPLICATION_SECRET : {None, Some("secret-new")},
     SAM_TENANT_ID : {None, Some("tenant-new")},
     SAM_REFRESH_TOKEN : {None, Some("refresh-new")}]
    \cup { [SAM_APPLICATION_ID |-> Some(""),
            SAM_APPLICATION_SECRET |-> Some("secret-new"),
            SAM_TENANT_ID |-> Some("tenant-new"),
            SAM_REFRESH_TOKEN |-> Some("refresh-new")] }

\* what the store may hold when the task starts: no table, an empty table,
\* an entity without or with an empty ApplicationID, a populated entity
SeedTables ==
    { [exists |-> FALSE, entity |-> None],
      [exists |-> TRUE, entity |-> None],
      [exists |-> TRUE,
       entity |-> Some([ApplicationID |-> None, ApplicationSecret |-> Some("secret-old"),
                        TenantID |-> Some("tenant-old"), RefreshToken |-> None])],
      [exists |-> TRUE,
       entity |-> Some([ApplicationID |-> Some(""), ApplicationSecret |-> Some(""),
                        TenantID |-> Some(""), RefreshToken |-> Some("")])],
      [exists |-> TRUE,
       entity |-> Some([ApplicationID |-> Some("app-old"),
                        ApplicationSecret |-> Some("secret-old"),
                        TenantID |-> Some("tenant-old"),
                        RefreshToken |-> Some("refresh-old")])] }

\* main() has been called and waitForAzurite is about to probe
TaskStarted(run) ==
    [pc |-> "waitForAzurite", i |-> 0, existing |-> None, exit |-> None,
     probes |-> 0, ready |-> FALSE, checked |-> FALSE, threw |-> FALSE, run |-> run]

SeedInit ==
    /\ env \in SeedEnvironments
    /\ table \in SeedTables
    /\ task = TaskStarted(1)
    /\ phase = "seeding"
    /\ oidcClient = FALSE
    /\ store = None
    /\ issued = 0
    /\ inflight = EmptyBag
    /\ last = NoExchange
    /\ pin = None
    /\ pout = None

\* process.exit(status), and the end of the process after main() resolved
Exited(status) == [task EXCEPT !.pc = "exited", !.exit = Some(status)]

\* an error reaches main().catch (lines 649-652)
SetupFailed == [Exited(1) EXCEPT !.threw = TRUE]

\* a waitForAzurite that returns when its retries are used up
probeNoThrow(up) ==
    /\ task.pc = "waitForAzurite"
    /\ task.i < maxRetries
    /\ task' = IF up
               THEN [task EXCEPT !.pc = "createTable", !.probes = @ + 1, !.ready = TRUE]
               ELSE IF task.i + 1 < maxRetries
               THEN [task EXCEPT !.i = @ + 1, !.probes = @ + 1]
               ELSE [task EXCEPT !.i = @ + 1, !.probes = @ + 1, !.pc = "createTable"]
    /\ UNCHANGED <<env, phase, oidcClient, store, issued, inflight, last, pin, pout, table>>

\* one turn of the loop of waitForAzurite (lines 558-572): the listTables
\* request succeeds and the function returns, so that main() calls
\* seedDevSecrets, which requests createTable; or it fails, and after the
\* delay the loop goes on or, its retries used up, throws
probe(up) ==
    /\ task.pc = "waitForAzurite"
    /\ task.i < maxRetries
    /\ task' = IF up
               THEN [task EXCEPT !.pc = "createTable", !.probes = @ + 1, !.ready = TRUE]
               ELSE IF task.i + 1 < maxRetries
               THEN [task EXCEPT !.i = @ + 1, !.probes = @ + 1]
               ELSE [SetupFailed EXCEPT !.i = @ + 1, !.probes = @ + 1]
    /\ UNCHANGED <<env, phase, oidcClient, store, issued, inflight, last, pin, pout, table>>

\* the answers a store request may get
StoreAnswers == {"ok", "conflict", "notFound", "error"}

\* lines 579-588: the table is created, or exists already (409), or the
\* request fails otherwise and the error is rethrown
createTable(answer) ==
    /\ task.pc = "createTable"
    /\ answer \in {"ok", "conflict", "error"}
    /\ answer = "ok" => ~table.exists
    /\ answer = "conflict" => table.exists
    /\ table' = IF answer = "ok" THEN [table EXCEPT !.exists = TRUE] ELSE table
    /\ task' = IF answer = "error" THEN SetupFailed ELSE [task EXCEPT !.pc = "getEntity"]
    /\ UNCHANGED <<env, phase, oidcClient, store, issued, inflight, last, pin, pout>>

\* line 593
populated(existing) == IsSome(existing) /\ ~Falsy(Get(existing).ApplicationID)

\* lines 609-614
credentialsMissing ==
    \/ Falsy(SAM_APPLICATION_ID)
    \/ Falsy(SAM_APPLICATION_SECRET)
    \/ Falsy(SAM_TENANT_ID)
    \/ Falsy(SAM_REFRESH_TOKEN)

\* lines 625-632
seedEntity ==
    [ApplicationID |-> SAM_APPLICATION_ID,
     ApplicationSecret |-> SAM_APPLICATION_SECRET,
     TenantID |-> SAM_TENANT_ID,
     RefreshToken |-> SAM_REFRESH_TOKEN]

\* a seeding that does not look at what the entity holds
afterGetEntityAlways(existing) ==
    LET seen == [task EXCEPT !.existing = existing, !.checked = TRUE]
    IN IF credentialsMissing THEN [seen EXCEPT !.pc = "exited", !.exit = Some(1)]
       ELSE [seen EXCEPT !.pc = "upsertEntity"]

\* the steps after the answer of getEntity, up to the next request or the
\* end of the process (lines 593-634)
afterGetEntity(existing) ==
    LET seen == [task EXCEPT !.existing = existing, !.checked = TRUE]
    IN IF populated(existing) THEN [seen EXCEPT !.pc = "exited", !.exit = Some(0)]
       ELSE IF credentialsMissing THEN [seen EXCEPT !.pc = "exited", !.exit = Some(1)]
       ELSE [seen EXCEPT !.pc = "upsertEntity"]

\* lines 591-606: the entity is returned, or there is none (404), or the
\* request fails otherwise and the error is rethrown
getEntity(answer) ==
    /\ task.pc = "getEntity"
    /\ answer \in {"ok", "notFound", "error"}
    /\ answer = "ok" => IsSome(table.entity)
    /\ answer = "notFound" => table.entity = None
    /\ task' = IF answer = "error" THEN SetupFailed
               ELSE afterGetEntity(IF answer = "ok" THEN table.entity ELSE None)
    /\ UNCHANGED <<env, phase, oidcClient, store, issued, inflight, last, pin, pout, table>>

\* line 634: the entity is replaced, or the request fails
upsertEntity(answer) ==
    /\ task.pc = "upsertEntity"
    /\ answer \in {"ok", "error"}
    /\ table' = IF answer = "ok" THEN [table EXCEPT !.entity = Some(seedEntity)] ELSE table
    /\ task' = IF answer = "ok" THEN Exited(0) ELSE SetupFailed
    /\ UNCHANGED <<env, phase, oidcClient, store, issued, inflight, last, pin, pout>>

\* the task is run again against the same store (line 649)
main ==
    /\ task.pc = "exited"
    /\ task.run < MaxRuns
    /\ task' = TaskStarted(task.run + 1)
    /\ UNCHANGED <<env, phase, oidcClient, store, issued, inflight, last, pin, pout, table>>

\* a step of a running task
SeedStep ==
    \/ \E up \in BOOLEAN : probe(up)
    \/ \E answer \in StoreAnswers : createTable(answer)
    \/ \E answer \in StoreAnswers : getEntity(answer)
    \/ \E answer \in StoreAnswers : upsertEntity(answer)

SeedNext == SeedStep \/ main

SpecSeed == SeedInit /\ [][SeedNext]_vars

\* every request the task makes to the store is answered in the end
SpecSeedFair == SeedInit /\ [][SeedNext]_vars /\ WF_vars(SeedStep)

\* ========================================================================
\* What the other side of each interface does with what the gateway sends
\* ========================================================================
\* Base64 decoding, as the backend decodes x-ms-client-principal
Base64Index ==
    [c \in {CharAt(Base64Alphabet, i) : i \in 1..Len(Base64Alphabet)} |->
        (CHOOSE i \in 1..Len(Base64Alphabet) : CharAt(Base64Alphabet, i) = c) - 1]

RECURSIVE Base64Decode(_)
Base64Decode(s) ==
    IF Len(s) < 4 THEN <<>>
    ELSE IF Len(s) = 4 THEN
        LET a == Base64Index[CharAt(s, 1)]
            b == Base64Index[CharAt(s, 2)]
            c3 == CharAt(s, 3)
            c4 == CharAt(s, 4)
        IN IF c3 = "=" THEN <<a * 4 + b \div 16>>
           ELSE IF c4 = "="
           THEN <<a * 4 + b \div 16, (b % 16) * 16 + Base64Index[c3] \div 4>>
           ELSE <<a * 4 + b \div 16,
                  (b % 16) * 16 + Base64Index[c3] \div 4,
                  (Base64Index[c3] % 4) * 64 + Base64Index[c4]>>
    ELSE LET half == 4 * ((Len(s) \div 4 + 1) \div 2)
         IN Base64Decode(SubSeq(s, 1, half)) \o Base64Decode(SubSeq(s, half + 1, Len(s)))

RECURSIVE BytesToString(_)
BytesToString(b) ==
    IF Len(b) = 0 THEN ""
    ELSE IF Len(b) = 1 THEN FromCharCode(b[1])
    ELSE BytesToString(SubSeq(b, 1, Len(b) \div 2))
         \o BytesToString(SubSeq(b, Len(b) \div 2 + 1, Len(b)))

\* JSON.parse, for the values the gateway emits: null, strings, arrays and
\* objects, without white space.  A parsed value is a record of one shape.
JNull == [type |-> "null", str |-> "", keys |-> <<>>, items |-> <<>>]
JString(v) == [type |-> "string", str |-> v, keys |-> <<>>, items |-> <<>>]
JArray(v) == [type |-> "array", str |-> "", keys |-> <<>>, items |-> v]
JObject(k, v) == [type |-> "object", str |-> "", keys |-> k, items |-> v]
JBool(v) == [type |-> "boolean", str |-> v, keys |-> <<>>, items |-> <<>>]

ParseFailed == [ok |-> FALSE, val |-> JNull, next |-> 0]
Parsed(v, n) == [ok |-> TRUE, val |-> v, next |-> n]

RECURSIVE ScanString(_, _, _)
ScanString(s, i, acc) ==
    IF i > Len(s) THEN ParseFailed
    ELSE LET c == CharAt(s, i) IN
         IF c = "\"" THEN Parsed(JString(acc), i + 1)
         ELSE IF c = "\\"
         THEN IF i + 1 <= Len(s) /\ CharAt(s, i + 1) \in {"\"", "\\", "/"}
              THEN ScanString(s, i + 2, acc \o CharAt(s, i + 1))
              ELSE ParseFailed
         ELSE ScanString(s, i + 1, acc \o c)

HasAt(s, i, word) == i + Len(word) - 1 <= Len(s) /\ SubSeq(s, i, i + Len(word) - 1) = word

RECURSIVE ParseValue(_, _)
RECURSIVE ParseItems(_, _, _)
RECURSIVE ParseMembers(_, _, _, _)

ParseValue(s, i) ==
    IF i > Len(s) THEN ParseFailed
    ELSE LET c == CharAt(s, i) IN
         IF c = "\"" THEN ScanString(s, i + 1, "")
         ELSE IF c = "[" THEN
            IF i + 1 <= Len(s) /\ CharAt(s, i + 1) = "]"
            THEN Parsed(JArray(<<>>), i + 2)
            ELSE ParseItems(s, i + 1, <<>>)
         ELSE IF c = "{" THEN
            IF i + 1 <= Len(s) /\ CharAt(s, i + 1) = "}"
            THEN Parsed(JObject(<<>>, <<>>), i + 2)
            ELSE ParseMembers(s, i + 1, <<>>, <<>>)
         ELSE IF HasAt(s, i, "null") THEN Parsed(JNull, i + 4)
         ELSE IF HasAt(s, i, "true") THEN Parsed(JBool("true"), i + 4)
         ELSE IF HasAt(s, i, "false") THEN Parsed(JBool("false"), i + 5)
         ELSE ParseFailed

ParseItems(s, i, acc) ==
    LET v == ParseValue(s, i) IN
    IF ~v.ok \/ v.next > Len(s) THEN ParseFailed
    ELSE IF CharAt(s, v.next) = "," THEN ParseItems(s, v.next + 1, Append(acc, v.val))
    ELSE IF CharAt(s, v.next) = "]" THEN Parsed(JArray(Append(acc, v.val)), v.next + 1)
    ELSE ParseFailed

ParseMembers(s, i, ks, vs) ==
    IF i > Len(s) \/ CharAt(s, i) # "\"" THEN ParseFailed
    ELSE LET k == ScanString(s, i + 1, "") IN
         IF ~k.ok \/ k.next > Len(s) \/ CharAt(s, k.next) # ":" THEN ParseFailed
         ELSE LET v == ParseValue(s, k.next + 1) IN
              IF ~v.ok \/ v.next > Len(s) THEN ParseFailed
              ELSE IF CharAt(s, v.next) = ","
                   THEN ParseMembers(s, v.next + 1, Append(ks, k.val.str), Append(vs, v.val))
              ELSE IF CharAt(s, v.next) = "}"
                   THEN Parsed(JObject(Append(ks, k.val.str), Append(vs, v.val)), v.next + 1)
              ELSE ParseFailed

\* JSON.parse: None when the text is not JSON
JsonParse(s) ==
    LET r == ParseValue(s, 1) IN
    IF r.ok /\ r.next = Len(s) + 1 THEN Some(r.val) ELSE None

HasMember(obj, key) == \E i \in 1..Len(obj.keys) : obj.keys[i] = key
Member(obj, key) == obj.items[CHOOSE i \in 1..Len(obj.keys) : obj.keys[i] = key]
Strings(arr) == [i \in 1..Len(arr.items) |-> arr.items[i].str]

\* the client principal the backend reads from an x-ms-client-principal header
DecodePrincipal(header) == JsonParse(BytesToString(Base64Decode(header)))

\* decodeURIComponent, as the identity provider reads a query parameter
HexValue == [c \in {CharAt(HexDigits, i) : i \in 1..Len(HexDigits)} |->
                (CHOOSE i \in 1..Len(HexDigits) : CharAt(HexDigits, i) = c) - 1]

\* where to cut a string of four or more characters in two non-empty parts
\* without cutting a %XX escape
SplitPoint(s) ==
    LET k == Len(s) \div 2 IN
    IF CharAt(s, k) = "%" THEN k - 1
    ELSE IF CharAt(s, k - 1) = "%" THEN k + 1
    ELSE k

RECURSIVE decodeURIComponent(_)
decodeURIComponent(s) ==
    IF Len(s) = 3 /\ CharAt(s, 1) = "%"
    THEN FromCharCode(HexValue[CharAt(s, 2)] * 16 + HexValue[CharAt(s, 3)])
    ELSE IF Len(s) <= 3 THEN s
    ELSE decodeURIComponent(SubSeq(s, 1, SplitPoint(s)))
         \o decodeURIComponent(SubSeq(s, SplitPoint(s) + 1, Len(s)))

\* the decoded value of the query parameter `name` of a URL, None without it
QueryValue(url, name) ==
    LET q == indexOf(url, "?")
        at == indexOf(url, name \o "=")
        from == at + Len(name) + 1
        rest == SubSeq(url, from, Len(url))
        amp == indexOf(rest, "&")
    IN IF q = 0 \/ at < q THEN None
       ELSE Some(decodeURIComponent(IF amp = 0 THEN rest ELSE SubSeq(rest, 1, amp - 1)))

\* the first index from which on s has one of the characters of `stops`,
\* Len(s) + 1 when it has none
FirstOf(s, stops) ==
    IF \E i \in 1..Len(s) : CharAt(s, i) \in stops
    THEN CHOOSE i \in 1..Len(s) :
            /\ CharAt(s, i) \in stops
            /\ \A j \in 1..(i - 1) : CharAt(s, j) \notin stops
    ELSE Len(s) + 1

\* the origin (scheme://host[:port]) a URL parser gives an absolute http(s)
\* URL, user information dropped; None for anything else
UrlOrigin(url) ==
    LET sep == indexOf(url, "://")
        scheme == toLowerCase(SubSeq(url, 1, sep - 1))
        rest == SubSeq(url, sep + 3, Len(url))
        authority == SubSeq(rest, 1, FirstOf(rest, {"/", "?", "#"}) - 1)
        ats == {i \in 1..Len(authority) : CharAt(authority, i) = "@"}
        host == IF ats = {} THEN authority
                ELSE SubSeq(authority, (CHOOSE i \in ats : \A j \in ats : j <= i) + 1,
                            Len(authority))
    IN IF sep = 0 THEN None
       ELSE IF scheme \notin {"http", "https"} \/ host = "" THEN None
       ELSE Some(scheme \o "://" \o toLowerCase(host))

\* ========================================================================
\* Properties
\* ========================================================================
\* the session the browser's cookie names, as a request arriving now would read it
CurrentSession == IF store = None THEN EmptySession ELSE Get(store)

Forwarded == last.route = "/api" /\ IsSome(last.forwarded)
ForwardedHeader(h) == Get(last.forwarded).headers[h]

\* the body is JSON for an object whose clientPrincipal member is null
IsNullPrincipalBody(body) ==
    LET parsed == JsonParse(body)
    IN /\ IsSome(parsed)
       /\ Get(parsed).type = "object"
       /\ Get(parsed).keys = <<"clientPrincipal">>
       /\ Member(Get(parsed), "clientPrincipal") = JNull

C2_StateMismatchNeverAuthenticates ==
    (last.route = "/auth/callback" /\ last.query.state # last.session.oidcState)
        => /\ last.status \in {500, 503}
           /\ CurrentSession.user = last.session.user

\* a callback replayed the state of an earlier login, against a session that
\* holds another one, with an authorization code
C2_Witness ==
    /\ last.route = "/auth/callback"
    /\ IsSome(last.query.state)
    /\ IsSome(last.session.oidcState)
    /\ last.query.state # last.session.oidcState
    /\ Get(last.query.state) \in 1..issued
    /\ last.query.code
    /\ last.status = 500

\* C3: after a callback handled while the OIDC flow is ready, the session
\* holds no pending login: nonce, state and post-login redirect are absent.
C3_CallbackClearsPendingLogin ==
    (last.route = "/auth/callback" /\ last.status # 503)
        => /\ CurrentSession.oidcNonce = None
           /\ CurrentSession.oidcState = None
           /\ CurrentSession.postLoginRedirect = None

\* C4: without a session user, GET /.auth/me and GET /api/me answer 200 with
\* {clientPrincipal: null}, and the GET /api/me is not forwarded.
C4_AnonymousGetsNullPrincipal ==
    /\ (last.route = "/.auth/me" /\ last.session.user = None)
          => (last.status = 200 /\ IsNullPrincipalBody(last.body))
    /\ (/\ last.route = "/api"
        /\ last.request.method = "GET"
        /\ last.request.path = "/api/me"
        /\ last.session.user = None)
          => /\ last.status = 200
             /\ IsNullPrincipalBody(last.body)
             /\ last.forwarded = None

\* GET /api/me was answered for a session that holds a pending login and no user
C4_Witness ==
    /\ last.route = "/api"
    /\ last.request.method = "GET"
    /\ last.request.path = "/api/me"
    /\ last.session.user = None
    /\ IsSome(last.session.oidcState)
    /\ last.status = 200

\* two characters that are the same letter, in either case, or the same character
SameIgnoringCase(c, d) ==
    \/ c = d
    \/ \E i \in 1..Len(UpperCase) :
          {c, d} = {CharAt(UpperCase, i), CharAt(LowerCase, i)}

EqualsIgnoringCase(a, b) ==
    /\ Len(a) = Len(b)
    /\ \A i \in 1..Len(a) : SameIgnoringCase(CharAt(a, i), CharAt(b, i))

AdminConfigured == IsSome(env.DEFAULT_ADMIN_UPN) /\ Get(env.DEFAULT_ADMIN_UPN) # ""
HasRole(principal, role) ==
    \E i \in 1..Len(Get(principal).userRoles) : Get(principal).userRoles[i] = role

\* C5: the principal has the role "admin" exactly when a default-admin address
\* is configured and the user's email equals it ignoring letter case.
C5_AdminIffDefaultAdmin ==
    IsSome(pout) =>
        (HasRole(pout, "admin")
            <=> /\ AdminConfigured
                /\ EqualsIgnoringCase(Get(pin).email, Get(env.DEFAULT_ADMIN_UPN)))

\* an address written in another case than the configured one was made admin
C5_Witness ==
    /\ IsSome(pout)
    /\ HasRole(pout, "admin")
    /\ Get(pin).email # Get(env.DEFAULT_ADMIN_UPN)
    /\ Get(pin).email # toLowerCase(Get(env.DEFAULT_ADMIN_UPN))

\* the userRoles of a decoded principal, as a sequence of strings; the empty
\* sequence when the header does not decode to an object with such an array
DecodedRoles(header) ==
    LET p == DecodePrincipal(header)
        roles == Member(Get(p), "userRoles")
    IN IF /\ IsSome(p)
          /\ Get(p).type = "object"
          /\ HasMember(Get(p), "userRoles")
          /\ roles.type = "array"
          /\ \A i \in 1..Len(roles.items) : roles.items[i].type = "string"
       THEN Strings(roles)
       ELSE <<>>

\* C6: every /api request forwarded for a session that holds a user carries
\* an x-ms-client-principal header that decodes to a principal whose
\* userRoles has "authenticated", then "anonymous", and "admin" only after
\* both.
C6_ForwardedPrincipalHasBaseRoles ==
    (Forwarded /\ IsSome(last.session.user)) =>
        /\ IsSome(ForwardedHeader("x-ms-client-principal"))
        /\ LET roles == DecodedRoles(Get(ForwardedHeader("x-ms-client-principal")))
           IN \E i, j \in 1..Len(roles) :
                /\ i < j
                /\ roles[i] = "authenticated"
                /\ roles[j] = "anonymous"
                /\ \A k \in 1..Len(roles) : roles[k] = "admin" => k > j

\* the default admin's request reached the backend with the three roles
C6_Witness ==
    /\ Forwarded
    /\ IsSome(last.session.user)
    /\ IsSome(ForwardedHeader("x-ms-client-principal"))
    /\ DecodedRoles(Get(ForwardedHeader("x-ms-client-principal")))
          = <<"authenticated", "anonymous", "admin">>

\* the JSON value a principal is, written down member by member
PrincipalValue(principal) ==
    JObject(<<"identityProvider", "userId", "userDetails", "userRoles">>,
            <<JString(principal.identityProvider),
              JString(principal.userId),
              JString(principal.userDetails),
              JArray([i \in 1..Len(principal.userRoles) |-> JString(principal.userRoles[i])])>>)

\* C7: a forwarded /api request carries each identity header exactly when the
\* session holds a user; then x-ms-client-principal decodes to the principal
\* built from the session user, x-ms-client-principal-name is the user's
\* email as stored, x-ms-client-principal-idp is "aad", no identity header
\* keeps the value the client sent, and the other headers pass unchanged.
C7_IdentityHeadersDerivedFromSession ==
    Forwarded =>
        /\ \A h \in IdentityHeaders :
              IsSome(ForwardedHeader(h)) <=> IsSome(last.session.user)
        /\ \A h \in HeaderNames \ IdentityHeaders :
              ForwardedHeader(h) = last.request.headers[h]
        /\ IsSome(last.session.user) =>
              /\ DecodePrincipal(Get(ForwardedHeader("x-ms-client-principal")))
                    = Some(PrincipalValue(Get(buildClientPrincipal(last.session.user))))
              /\ ForwardedHeader("x-ms-client-principal-name")
                    = Some(Get(last.session.user).email)
              /\ ForwardedHeader("x-ms-client-principal-idp") = Some("aad")
              /\ \A h \in IdentityHeaders :
                    IsSome(last.request.headers[h])
                        => ForwardedHeader(h) # last.request.headers[h]

\* a signed-in user whose email has upper-case letters sent three forged
\* identity headers, and the request was forwarded
C7_Witness ==
    /\ Forwarded
    /\ IsSome(last.session.user)
    /\ Get(last.session.user).email # toLowerCase(Get(last.session.user).email)
    /\ \A h \in IdentityHeaders : IsSome(last.request.headers[h])

\* the body is JSON for an object whose clientPrincipal member is an object
\* with the given userDetails
HasPrincipalFor(body, email) ==
    LET parsed == JsonParse(body)
        principal == Member(Get(parsed), "clientPrincipal")
    IN /\ IsSome(parsed)
       /\ Get(parsed).type = "object"
       /\ HasMember(Get(parsed), "clientPrincipal")
       /\ principal.type = "object"
       /\ HasMember(principal, "userDetails")
       /\ Member(principal, "userDetails") = JString(email)

\* the callback in `last` carried the state and an ID token with the nonce of
\* the login its session holds
MatchingCallback ==
    /\ last.route = "/auth/callback"
    /\ last.status # 503
    /\ IsSome(last.session.oidcState)
    /\ last.query.state = last.session.oidcState
    /\ last.query.code
    /\ IsSome(last.token)
    /\ Get(last.token).nonce = last.session.oidcNonce

\* C8: a login initiation with post-login path P stores P ("/" without one)
\* with the state and nonce it sent; a callback with that state and nonce
\* redirects to the stored path, leaves the session holding the user of the
\* token claims and no post-login path; and GET /.auth/me for a session with
\* a user answers 200 with a principal whose userDetails is that user's email.
C8_LoginRoundTrip ==
    /\ (last.route = "/.auth/login/aad" /\ last.status = 302) =>
          /\ CurrentSession.postLoginRedirect
                = Some(IF last.query = None THEN "/" ELSE Get(last.query))
          /\ CurrentSession.oidcState = Some(last.state)
          /\ CurrentSession.oidcNonce = Some(last.nonce)
    /\ MatchingCallback =>
          /\ last.status = 302
          /\ IsSome(last.session.postLoginRedirect)
          /\ last.location = Get(last.session.postLoginRedirect)
          /\ CurrentSession.user = Some(userFromClaims(Get(last.token).claims))
          /\ CurrentSession.postLoginRedirect = None
    /\ (last.route = "/.auth/me" /\ IsSome(last.session.user)) =>
          /\ last.status = 200
          /\ HasPrincipalFor(last.body, Get(last.session.user).email)

\* a login that asked for /tenants was completed and redirected there
C8_Witness ==
    /\ MatchingCallback
    /\ last.status = 302
    /\ last.location = "/tenants"
    /\ IsSome(CurrentSession.user)

\* C9: the post_logout_redirect_uri embedded in the end-session URL of every
\* logout response is an absolute URL whose origin is the origin of BASE_URL.
C9_LogoutRedirectOnConfiguredOrigin ==
    last.route = "/.auth/logout" =>
        LET uri == QueryValue(last.location, "post_logout_redirect_uri")
        IN /\ IsSome(uri)
           /\ IsSome(UrlOrigin(Get(uri)))
           /\ UrlOrigin(Get(uri)) = UrlOrigin(BASE_URL)

\* the provider's end-session endpoint
LogoutEndpoint == "https://login.microsoftonline.com/" \o TENANT_ID \o "/oauth2/v2.0/logout"

C11_LogoutEndsSession ==
    /\ last.route = "/.auth/logout" => store = None
    /\ (/\ last.route = "/auth/callback"
        /\ last.session.oidcState = None
        /\ IsSome(last.query.state)) => last.status \in {500, 503}
    /\ (last.route = "/auth/callback" /\ last.loggedOut) => last.status # 302

\* the listener is up without a client
NotReady == phase = "listening" /\ ~oidcClient

\* C12: the listener starts whether discovery succeeded or not; while the
\* client is missing no session is ever stored, login and callback answer
\* 503 with the fixed text, /.auth/me answers the null principal, logout
\* redirects to the provider, /api requests are intercepted or forwarded,
\* and the frontend serves its files and the entry document.
C12_DiscoveryFailureDegradesAuthOnly ==
    /\ [][phase = "starting" => phase' = "listening"]_vars
    /\ [](NotReady =>
            /\ store = None
            /\ last.route \in {"/.auth/login/aad", "/auth/callback"}
                  => (last.status = 503 /\ last.body = NotReadyBody)
            /\ last.route = "/.auth/me"
                  => (last.status = 200 /\ IsNullPrincipalBody(last.body))
            /\ last.route = "/.auth/logout"
                  => (last.status = 302 /\ startsWith(last.location, LogoutEndpoint \o "?"))
            /\ (last.route = "/api" /\ last.forwarded = None)
                  => (last.status = 200 /\ IsNullPrincipalBody(last.body))
            /\ Forwarded
                  => /\ last.status = (IF last.connected THEN 200 ELSE 502)
                     /\ \A h \in IdentityHeaders : ForwardedHeader(h) = None
            /\ (last.route = "frontend" /\ last.request.method = "GET")
                  => (last.status = 200 /\ IsSome(last.file)))

\* a login was refused with 503 because discovery had failed
C12_Witness ==
    /\ NotReady
    /\ last.route = "/.auth/login/aad"
    /\ last.status = 503

\* C13: with the session-signing secret or the client secret missing from
\* the configuration, the listener never starts and no request is served.
C13_NoListenerWithoutSecrets ==
    (env.SESSION_SECRET = None \/ env.AZURE_AD_CLIENT_SECRET = None)
        => (phase # "listening" /\ last = NoExchange)

\* C14: a forwarded /api request whose connection to the backend fails is
\* answered 502 with the JSON body {"error":"API backend unavailable"}, the
\* stored session is what the request read, and no /api exchange changes the
\* stored session or the client.
C14_BackendFailureAnswers502 ==
    /\ []((Forwarded /\ ~last.connected) =>
            /\ last.status = 502
            /\ JsonParse(last.body)
                  = Some(JObject(<<"error">>, <<JString("API backend unavailable")>>))
            /\ CurrentSession = last.session)
    /\ [][last'.route = "/api" => (store' = store /\ oidcClient' = oidcClient)]_vars

\* a signed-in user's request met a backend that refused the connection
C14_Witness ==
    /\ Forwarded
    /\ ~last.connected
    /\ IsSome(last.session.user)
    /\ last.status = 502

\* the path is the prefix or lies below it
underPrefix(path, prefix) == path = prefix \/ startsWith(path, prefix \o "/")

\* C15: the entry document is served as a fallback only for paths under
\* none of /api, /.auth and /auth.
C15_FallbackSparesAuthAndApi ==
    (last.route = "frontend" /\ last.fallback)
        => \A prefix \in {"/api", "/.auth", "/auth"} :
               ~underPrefix(toLowerCase(last.request.path), prefix)

\* the oidc member of a health body, None when the body has none
HealthOidc(body) ==
    LET parsed == JsonParse(body)
    IN IF /\ IsSome(parsed)
          /\ Get(parsed).type = "object"
          /\ HasMember(Get(parsed), "oidc")
       THEN Some(Member(Get(parsed), "oidc"))
       ELSE None

\* C16: the client is absent until the listener starts and never changes
\* once it has, and every /health answer reports oidc true exactly when the
\* client is present.
C16_ClientFixedAfterStartup ==
    /\ [](phase = "starting" => ~oidcClient)
    /\ [][phase = "listening" => oidcClient' = oidcClient]_vars
    /\ [](last.route = "/health" =>
            /\ last.status = 200
            /\ HealthOidc(last.body) = Some(JBool(IF oidcClient THEN "true" ELSE "false")))

\* /health reported oidc false after logins had been refused
C16_Witness ==
    /\ last.route = "/health"
    /\ ~oidcClient
    /\ HealthOidc(last.body) = Some(JBool("false"))

\* a path on the gateway's own origin
IsRelativePath(p) == startsWith(p, "/") /\ ~startsWith(p, "//")

\* C17: the post-login redirect a session holds, and the target of the
\* redirect of a successful callback, is a same-origin relative path.
C17_PostLoginRedirectIsRelative ==
    /\ IsSome(CurrentSession.postLoginRedirect)
          => IsRelativePath(Get(CurrentSession.postLoginRedirect))
    /\ (last.route = "/auth/callback" /\ last.status = 302)
          => IsRelativePath(last.location)

\* C18: a state completes at most one successful callback: a callback that
\* arrives after its state was used fails, and so does a callback that was
\* waiting for the token endpoint when another callback carrying the same
\* state succeeded.
C18_StateIsSingleUse ==
    (last.route = "/auth/callback" /\ IsSome(last.query.state) /\ last.spent)
        => last.status # 302

\* C19: a callback succeeds only when its state is the state of the session
\* as the request read it, and when it changes that session its write
\* replaces the stored session, whatever was stored meanwhile, with what the
\* request read, the user set and the pending login removed.
C19_CallbackJudgedOnSessionAsRead ==
    (last.route = "/auth/callback" /\ last.status = 302) =>
        LET after == authenticatedSession(last.session, Get(last.token).claims)
        IN /\ last.query.state = last.session.oidcState
           /\ after # last.session => CurrentSession = after

\* a callback of the first login succeeded after a second login had been
\* started while it waited
C19_Witness ==
    /\ last.route = "/auth/callback"
    /\ last.status = 302
    /\ last.query.state = Some(2)
    /\ issued = 4

\* C20: after a login initiation the session holds the nonce, the state and
\* the post-login path of that initiation and of no earlier one, the nonce
\* and state differ from those it replaced, and a callback that arrives with
\* the state of an earlier initiation fails.
C20_OnePendingLogin ==
    /\ (last.route = "/.auth/login/aad" /\ last.status = 302) =>
          /\ CurrentSession.oidcNonce = Some(last.nonce)
          /\ CurrentSession.oidcState = Some(last.state)
          /\ CurrentSession.postLoginRedirect
                = Some(IF last.query = None THEN "/" ELSE Get(last.query))
          /\ last.nonce # last.state
          /\ {Some(last.nonce), Some(last.state)}
                \cap {last.session.oidcNonce, last.session.oidcState} = {}
    /\ (/\ last.route = "/auth/callback"
        /\ IsSome(last.query.state)
        /\ IsSome(last.session.oidcState)
        /\ Get(last.query.state) \in 1..(Get(last.session.oidcState) - 1))
          => last.status = 500

\* a second login replaced the pending login of the first
C20_Witness ==
    /\ last.route = "/.auth/login/aad"
    /\ last.status = 302
    /\ IsSome(last.session.oidcState)
    /\ CurrentSession.oidcState # last.session.oidcState

\* C21: every callback that fails while the client is present, whether its
\* state or its parameters were refused, the token request failed or the ID
\* token's nonce was refused, is answered with status 500 and the one fixed
\* text, which names neither the failed check nor anything the provider said.
C21_FailingCallbackIsGeneric ==
    (last.route = "/auth/callback" /\ oidcClient /\ last.status # 302) =>
        /\ last.status = 500
        /\ last.body = "Authentication failed. Please try again."
        /\ DOMAIN last = {"route", "session", "query", "token", "loggedOut", "spent",
                          "status", "body"}

\* a callback failed on the nonce of the ID token it was given
C21_Witness ==
    /\ last.route = "/auth/callback"
    /\ last.status = 500
    /\ IsSome(last.token)
    /\ last.query.state = last.session.oidcState

\* a claim that is present and not the empty string
NonEmpty(claim) == IsSome(claim) /\ Get(claim) # ""

\* the first non-empty claim of a sequence, the empty string when there is none
FirstNonEmpty(claims) ==
    LET present == {i \in 1..Len(claims) : NonEmpty(claims[i])}
    IN IF present = {} THEN ""
       ELSE Get(claims[CHOOSE i \in present : \A j \in present : i <= j])

\* C22: after a successful callback the session user's email is the first
\* non-empty of the claims preferred_username, email and upn, in that order,
\* and the empty string without any; its oid is the oid claim when there is
\* one, else sub; its name is the name claim, else the empty string; and the
\* user is that one whatever user the session held before.
C22_UserFromClaimsPrecedence ==
    IsSome(pout) /\ phase = "claims" =>
        LET claims == pin.claims
            user == Get(pout).user
        IN /\ IsSome(user)
           /\ Get(user).email
                 = FirstNonEmpty(<<claims.preferred_username, claims.email, claims.upn>>)
           /\ Get(user).oid = (IF NonEmpty(claims.oid) THEN Get(claims.oid) ELSE claims.sub)
           /\ Get(user).name = (IF IsSome(claims.name) THEN Get(claims.name) ELSE "")
           /\ DOMAIN Get(user) = {"oid", "email", "name"}

\* a session that held another user got the email claim of a token whose
\* preferred_username is empty, and the sub of a token without oid
C22_Witness ==
    /\ phase = "claims"
    /\ IsSome(pout)
    /\ IsSome(pin.session.user)
    /\ pin.claims.preferred_username = Some("")
    /\ pin.claims.oid = None
    /\ Get(Get(pout).user) = [oid |-> "sub-1", email |-> "mail@example.com", name |-> ""]

\* C23: every /api request that is forwarded reaches the backend with the
\* path the gateway received, character for character.
C23_ForwardedPathAsReceived ==
    Forwarded => Get(last.forwarded).path = last.request.path

\* the exchange in `last` is one of the requests that are not to touch the user
LeavesUserAlone ==
    \/ last.route \in {"/.auth/login/aad", "/.auth/me", "/health", "/api", "frontend"}
    \/ last.route = "/auth/callback" /\ last.status = 503

\* C24: the user of the browser's session changes only in a step in which a
\* callback succeeds, which sets it, or a logout is answered, which removes
\* it (or the session itself expires); a login initiation, /.auth/me,
\* /health, an /api request, a frontend request and a callback answered 503
\* leave the session with the user they read, and the step in which a
\* callback fails leaves the user the session held before the step.
C24_UserChangedOnlyByCallbackAndLogout ==
    /\ [][CurrentSession'.user # CurrentSession.user =>
            \/ /\ last'.route = "/auth/callback"
               /\ last'.status = 302
               /\ last' # last
               /\ IsSome(CurrentSession'.user)
            \/ /\ last'.route = "/.auth/logout"
               /\ last' # last
               /\ CurrentSession'.user = None
            \/ /\ last' = last
               /\ store' = None]_vars
    /\ [](LeavesUserAlone => CurrentSession.user = last.session.user)

\* a signed-in user started another login and is still signed in
C24_Witness ==
    /\ last.route = "/.auth/login/aad"
    /\ last.status = 302
    /\ IsSome(last.session.user)
    /\ CurrentSession.user = last.session.user
    /\ IsSome(CurrentSession.oidcState)

\* C25: a callback whose session a logout destroyed while it awaited the
\* token endpoint leaves the browser's session without a user when it
\* responds.
C25_OverlappingLogoutWins ==
    (last.route = "/auth/callback" /\ last.loggedOut) => CurrentSession.user = None

\* C26: the task changes the entity only when the entity is absent or has no
\* ApplicationID and all four credentials are present, and then to the
\* entity made of the credentials; a run that found a populated entity ends
\* with status 0 and the entity as found, whatever the credentials; a run
\* that found none, or an unpopulated one, with a credential missing ends
\* with status 1 and the entity as found.
C26_SeedingNeverOverwrites ==
    /\ [][table'.entity # table.entity =>
            /\ ~populated(table.entity)
            /\ ~credentialsMissing
            /\ table'.entity = Some(seedEntity)]_vars
    /\ []((task.pc = "exited" /\ task.checked /\ populated(task.existing)) =>
            /\ task.exit = Some(0)
            /\ table.entity = task.existing)
    /\ []((/\ task.pc = "exited"
           /\ task.checked
           /\ ~populated(task.existing)
           /\ credentialsMissing) =>
            /\ task.exit = Some(1)
            /\ table.entity = task.existing)

\* a run without credentials found the entity another configuration had
\* seeded, left it and ended with status 0
C26_Witness ==
    /\ task.pc = "exited"
    /\ task.checked
    /\ populated(task.existing)
    /\ credentialsMissing
    /\ task.exit = Some(0)
    /\ table.entity = task.existing
    /\ Get(table.entity).ApplicationID = Some("app-old")

\* the task awaits one of the requests of seedDevSecrets
Seeding == task.pc \in {"createTable", "getEntity", "upsertEntity"}

\* C27: a run probes the store at most maxRetries times and not again once a
\* probe has succeeded; a run that ends without a successful probe has made
\* maxRetries probes and ends with status 1; seedDevSecrets runs only after
\* waitForAzurite has returned; every error ends the run with status 1, and
\* a run ends with status 0 only with the entity populated; and every run
\* ends.
C27_WaitTerminatesAndGuardsSeeding ==
    /\ [](task.probes <= maxRetries)
    /\ [][(task.ready /\ task'.run = task.run) => task'.probes = task.probes]_vars
    /\ []((task.pc = "exited" /\ ~task.ready) =>
            /\ task.probes = maxRetries
            /\ task.exit = Some(1))
    /\ []((Seeding \/ task.checked) => task.ready)
    /\ [][table' # table => (Seeding /\ task.ready)]_vars
    /\ [](task.threw => (task.pc = "exited" /\ task.exit = Some(1)))
    /\ []((task.pc = "exited" /\ task.exit = Some(0)) =>
            (task.ready /\ populated(table.entity)))
    /\ (task.pc # "exited") ~> (task.pc = "exited")

\* the store never answered a probe, and the run ended with status 1 after
\* its last retry
C27_Witness ==
    /\ task.pc = "exited"
    /\ ~task.ready
    /\ task.probes = maxRetries
    /\ task.exit = Some(1)
    /\ table = [exists |-> FALSE, entity |-> None]

====
